---- MODULE Spec2Model ----
(***************************************************************************)
(* Weather signal bot: run_scan (bot/core/engine.py), evaluate_signal      *)
(* (bot/models/signal.py), the paper-trading ledger apply_paper_trading    *)
(* (bot/core/paper.py) and the estimator estimate_yes_probability          *)
(* (bot/adapters/weather.py).                                              *)
(*                                                                         *)
(* Numbers.  The program computes in binary floating point.  The model     *)
(* computes in fixed point, every quantity an integer number of units:     *)
(*   probabilities as supplied by the collaborators   1/RawScale           *)
(*   probabilities after round(x, 4), prices          1/PriceScale         *)
(*   share quantities                                 1/QtyScale           *)
(*   money                                            1/MoneyScale dollar  *)
(* with MoneyScale = PriceScale * QtyScale, so that quantity * price is    *)
(* money without rounding.  Division is the one operation that leaves the  *)
(* grid; it rounds to nearest, ties to even, as IEEE division and Python's *)
(* round() do.  Text fields carried through unchanged (question,           *)
(* rationale, liquidity, the raw payload) are left out.                    *)
(***************************************************************************)
EXTENDS Integers, Sequences, FiniteSets, TLC

VARIABLES
    pc,            \* position of the process inside main / run_scan / apply_paper_trading
    now,           \* the clock read by _now_iso(): one tick per run
    cfg,           \* the loaded configuration
    file,          \* the ledger state file on disk
    candidates,    \* run_scan: fetch_weather_candidates(cfg)
    i,             \* run_scan: index of the candidate being processed
    alerts,        \* run_scan: alerts
    evaluations,   \* run_scan: evaluations
    skipped,       \* run_scan: skipped
    estimate,      \* run_scan: what estimate_yes_probability returned last, <<>> if it raised
    forecast,      \* estimate_yes_probability: what the question and the forecast gave it
    payload,       \* run_scan: the counts of the returned payload
    state,         \* apply_paper_trading: state (the loaded document)
    cash,          \* apply_paper_trading: cash
    positions,     \* apply_paper_trading: positions
    trades,        \* apply_paper_trading: trades
    opened,        \* apply_paper_trading: opened
    closed,        \* apply_paper_trading: closed
    keys,          \* close pass: list(positions.items()), the keys
    k,             \* close pass: index into keys
    sorted_alerts, \* open pass: sorted_alerts
    j,             \* open pass: index into sorted_alerts
    summary,       \* apply_paper_trading: summary
    repeat         \* history: this run repeats the evaluations of the run before it

vars == <<pc, now, cfg, file, candidates, i, alerts, evaluations, skipped, payload,
          state, cash, positions, trades, opened, closed, keys, k, sorted_alerts, j,
          summary, estimate, repeat, forecast>>

scanVars == <<candidates, i, alerts, evaluations, skipped, payload, estimate, repeat,
              forecast>>
ledgerVars == <<state, cash, positions, trades, opened, closed, keys, k,
                sorted_alerts, j, summary>>

---------------------------------------------------------------------------
(* Units and program constants *)

PriceScale == 10000
QtyScale == 100
RawScale == 10 * PriceScale
MoneyScale == PriceScale * QtyScale
BpsScale == 10000
TradeCap == 1000

(* Bounds of the model *)
MaxRuns == 2
MaxCandidates == 2

Markets == {"m1", "m2"}
\* sort_keys=True: the order in which a loaded positions dict is iterated
MarketOrder == <<"m1", "m2">>
\* yes_price of a candidate, in 1/RawScale
YesPrices == {0, 40000, 60000}
\* (model_prob, confidence) returned by estimate_yes_probability, in 1/RawScale
Estimates == {<<30000, 80000>>, <<70000, 80000>>}

Configs ==
    { [min_edge_bps |-> 2000, min_confidence |-> 55000, paper_enabled |-> TRUE,
       starting_cash_usd |-> 1504000, position_size_usd |-> 1000000,
       max_open_positions |-> 2, close_edge_bps |-> 1000],
      [min_edge_bps |-> 1000, min_confidence |-> 55000, paper_enabled |-> TRUE,
       starting_cash_usd |-> 2000000, position_size_usd |-> 1000000,
       max_open_positions |-> 1, close_edge_bps |-> 3000],
      [min_edge_bps |-> 1000, min_confidence |-> 55000, paper_enabled |-> FALSE,
       starting_cash_usd |-> 2000000, position_size_usd |-> 1000000,
       max_open_positions |-> 1, close_edge_bps |-> 3000] }

---------------------------------------------------------------------------
(* Arithmetic *)

Abs(n) == IF n < 0 THEN -n ELSE n

\* n / d rounded to the nearest integer, ties to the even one (d > 0)
RoundHalfEven(n, d) ==
    LET q == n \div d
        r == n % d
    IN  IF 2 * r < d THEN q
        ELSE IF 2 * r > d THEN q + 1
        ELSE IF q % 2 = 0 THEN q ELSE q + 1

\* round(x, 4) of a probability given in 1/RawScale; the result is in 1/PriceScale
Round4(x) == RoundHalfEven(x * PriceScale, RawScale)

\* one cent, in 1/MoneyScale
Cent == MoneyScale \div 100

\* round(x, 2) of an amount of money: the nearest whole number of cents
Round2(x) == RoundHalfEven(x, Cent) * Cent

\* the last n elements of s: s[-n:]
LastN(s, n) == IF Len(s) <= n THEN s ELSE SubSeq(s, Len(s) - n + 1, Len(s))

---------------------------------------------------------------------------
(* bot/models/signal.py *)

\* int(round((model_prob - market_yes_prob) * 10_000))
edge_bps_of(model_prob, market_yes_prob) ==
    RoundHalfEven((model_prob - market_yes_prob) * BpsScale, RawScale)

\* mutant of evaluate_signal: the confidence is not looked at
evaluate_signal_any_confidence(market, model_prob, confidence, c) ==
    LET edge_bps == edge_bps_of(model_prob, market.yes_price)
    IN  IF edge_bps >= c.min_edge_bps \/ edge_bps <= -c.min_edge_bps
        THEN << [market_id |-> market.id,
                 action |-> IF edge_bps >= c.min_edge_bps THEN "BUY_YES" ELSE "BUY_NO",
                 market_yes_prob |-> Round4(market.yes_price),
                 model_yes_prob |-> Round4(model_prob),
                 edge_bps |-> edge_bps,
                 confidence |-> Round4(confidence)] >>
        ELSE <<>>

\* The Signal, or nothing: <<>> is None, <<s>> is the Signal s
evaluate_signal(market, model_prob, confidence, c) ==
    LET market_yes_prob == market.yes_price
        edge_bps == edge_bps_of(model_prob, market_yes_prob)
    IN  IF confidence < c.min_confidence THEN <<>>
        ELSE IF edge_bps >= c.min_edge_bps \/ edge_bps <= -c.min_edge_bps
        THEN << [market_id |-> market.id,
                 action |-> IF edge_bps >= c.min_edge_bps THEN "BUY_YES" ELSE "BUY_NO",
                 market_yes_prob |-> Round4(market_yes_prob),
                 model_yes_prob |-> Round4(model_prob),
                 edge_bps |-> edge_bps,
                 confidence |-> Round4(confidence)] >>
        ELSE <<>>

---------------------------------------------------------------------------
(* bot/core/paper.py: helpers *)

\* mutant of _price_for_side: the NO side priced like the YES side
_price_for_side_yes_only(yes_price, side) ==
    LET lo == PriceScale \div 1000
        hi == PriceScale - PriceScale \div 1000
    IN  IF yes_price < lo THEN lo ELSE IF yes_price > hi THEN hi ELSE yes_price

_price_for_side(yes_price, side) ==
    LET lo == PriceScale \div 1000
        hi == PriceScale - PriceScale \div 1000
        clamped == IF yes_price < lo THEN lo ELSE IF yes_price > hi THEN hi ELSE yes_price
    IN  IF side = "YES" THEN clamped ELSE PriceScale - clamped

_value_for_side(qty, yes_price, side) == qty * _price_for_side(yes_price, side)

_signal_side(action) == IF action = "BUY_YES" THEN "YES" ELSE "NO"

\* qty = position_size_usd / unit_price
qty_for(position_size_usd, unit_price) == RoundHalfEven(position_size_usd, unit_price)

EmptyPositions == [m \in {} |-> 0]

\* {"cash_usd": float(starting_cash_usd), "positions": {}, "trades": []}
FreshState(starting_cash_usd) ==
    [cash_usd |-> starting_cash_usd, positions |-> EmptyPositions, trades |-> <<>>]

\* what _load_state returns for a file that is absent or holds a complete document
_load_state(f, starting_cash_usd) ==
    IF f.exists THEN f.doc ELSE FreshState(starting_cash_usd)

\* {key: item for item in items}: the key is present, and the last item wins
HasKey(items, market_id) == \E n \in 1..Len(items) : items[n].market_id = market_id

LastFor(items, market_id) ==
    LET n == CHOOSE n \in 1..Len(items) :
                 /\ items[n].market_id = market_id
                 /\ \A n2 \in (n + 1)..Len(items) : items[n2].market_id # market_id
    IN  items[n]

\* current YES price of a held position: the row's, else the last known one
mark_yes_price(position, market_id, evals) ==
    IF HasKey(evals, market_id) THEN LastFor(evals, market_id).market_yes_prob
    ELSE position.last_yes_price

\* mutant of close_reason_for: a position is closed at the boundary too
close_reason_for_at_boundary(side, market_id, evals, sigs, c) ==
    LET opposite == /\ HasKey(sigs, market_id)
                    /\ _signal_side(LastFor(sigs, market_id).action) # side
        edge_bps == LastFor(evals, market_id).edge_bps
    IN  IF opposite THEN "opposite_signal"
        ELSE IF HasKey(evals, market_id)
                /\ \/ side = "YES" /\ edge_bps <= c.close_edge_bps
                   \/ side = "NO" /\ edge_bps >= -c.close_edge_bps
        THEN "edge_decay"
        ELSE "None"

\* mutant of close_reason_for: a position whose market has no row is closed
close_reason_for_absent_closes(side, market_id, evals, sigs, c) ==
    LET opposite == /\ HasKey(sigs, market_id)
                    /\ _signal_side(LastFor(sigs, market_id).action) # side
        edge_bps == LastFor(evals, market_id).edge_bps
    IN  IF opposite THEN "opposite_signal"
        ELSE IF \/ ~HasKey(evals, market_id)
                \/ (side = "YES" /\ edge_bps < c.close_edge_bps)
                \/ (side = "NO" /\ edge_bps > -c.close_edge_bps)
        THEN "edge_decay"
        ELSE "None"

\* close pass: the reason to close a position, "None" to keep it
close_reason_for(side, market_id, evals, sigs, c) ==
    LET opposite == /\ HasKey(sigs, market_id)
                    /\ _signal_side(LastFor(sigs, market_id).action) # side
        edge_bps == LastFor(evals, market_id).edge_bps
    IN  IF opposite THEN "opposite_signal"
        ELSE IF HasKey(evals, market_id)
                /\ \/ side = "YES" /\ edge_bps < c.close_edge_bps
                   \/ side = "NO" /\ edge_bps > -c.close_edge_bps
        THEN "edge_decay"
        ELSE "None"

\* mutant of close_trade_of: the cost basis is left out of the realized PNL
close_trade_of_no_cost(position, market_id, yes_price, current_value, reason, ts) ==
    [ts |-> ts, type |-> "CLOSE", market_id |-> market_id, side |-> position.side,
     qty |-> position.qty, yes_price |-> yes_price,
     proceeds_usd |-> Round2(current_value),
     cost_usd |-> Round2(position.cost_usd),
     realized_pnl_usd |-> Round2(current_value),
     reason |-> reason]

close_trade_of(position, market_id, yes_price, current_value, reason, ts) ==
    [ts |-> ts, type |-> "CLOSE", market_id |-> market_id, side |-> position.side,
     qty |-> position.qty, yes_price |-> yes_price,
     proceeds_usd |-> Round2(current_value),
     cost_usd |-> Round2(position.cost_usd),
     realized_pnl_usd |-> Round2(current_value - position.cost_usd),
     reason |-> reason]

\* mutant of RemoveKey: del positions[market_id] is forgotten
RemoveKeyForgotten(ps, market_id) == ps

RemoveKey(ps, market_id) == [m \in (DOMAIN ps) \ {market_id} |-> ps[m]]

PutKey(ps, market_id, p) ==
    [m \in (DOMAIN ps) \cup {market_id} |-> IF m = market_id THEN p ELSE ps[m]]

\* mutant of SortAlerts: the signals are taken in input order
SortAlertsUnsorted(sigs) == sigs

\* sorted(alerts, key=lambda s: abs(s.edge_bps), reverse=True): stable
RECURSIVE SortAlerts(_)
SortAlerts(sigs) ==
    IF sigs = <<>> THEN <<>>
    ELSE LET x == sigs[Len(sigs)]
             front == SortAlerts(SubSeq(sigs, 1, Len(sigs) - 1))
             n == Cardinality({m \in 1..Len(front) : Abs(front[m].edge_bps) >= Abs(x.edge_bps)})
         IN  SubSeq(front, 1, n) \o <<x>> \o SubSeq(front, n + 1, Len(front))

new_position_of(signal, yes_price, position_size_usd, ts) ==
    LET side == _signal_side(signal.action)
        unit_price == _price_for_side(yes_price, side)
    IN  [side |-> side, qty |-> qty_for(position_size_usd, unit_price),
         entry_yes_price |-> yes_price, entry_unit_price |-> unit_price,
         cost_usd |-> position_size_usd, entry_ts |-> ts,
         last_yes_price |-> yes_price, last_mark_value_usd |-> position_size_usd,
         last_mark_ts |-> ts]

open_trade_of(signal, position, yes_price, position_size_usd, ts) ==
    [ts |-> ts, type |-> "OPEN", market_id |-> signal.market_id, side |-> position.side,
     qty |-> position.qty, yes_price |-> yes_price,
     cost_usd |-> Round2(position_size_usd),
     signal_edge_bps |-> signal.edge_bps, signal_confidence |-> signal.confidence]

\* portfolio marks: the sum of f over the held positions
RECURSIVE SumOver(_, _, _)
SumOver(ps, ms, evals) ==
    IF ms = {} THEN 0
    ELSE LET m == CHOOSE m \in ms : TRUE
         IN  _value_for_side(ps[m].qty, mark_yes_price(ps[m], m, evals), ps[m].side)
             + SumOver(ps, ms \ {m}, evals)

total_mark_value_of(ps, evals) == SumOver(ps, DOMAIN ps, evals)

RECURSIVE total_cost_of(_, _)
total_cost_of(ps, ms) ==
    IF ms = {} THEN 0
    ELSE LET m == CHOOSE m \in ms : TRUE
         IN  ps[m].cost_usd + total_cost_of(ps, ms \ {m})

\* mutant of equity_of: the marks are left out of the equity
equity_of_cash_only(c, total_mark_value) == c

equity_of(c, total_mark_value) == c + total_mark_value

summary_of(c, ps, evals, op, cl) ==
    LET total_mark_value == total_mark_value_of(ps, evals)
        total_cost == total_cost_of(ps, DOMAIN ps)
    IN  [cash_usd |-> Round2(c),
         equity_usd |-> Round2(equity_of(c, total_mark_value)),
         open_positions |-> Cardinality(DOMAIN ps),
         position_value_usd |-> Round2(total_mark_value),
         unrealized_pnl_usd |-> Round2(total_mark_value - total_cost),
         opened |-> op, closed |-> cl]

\* mutant of kept_trades: trades[:1000], the oldest entries are kept
kept_trades_oldest(ts) == IF Len(ts) <= TradeCap THEN ts ELSE SubSeq(ts, 1, TradeCap)

\* state["trades"] = trades[-1000:]
kept_trades(ts) == LastN(ts, TradeCap)

---------------------------------------------------------------------------
(* The process: main's loop, one run_scan per iteration *)

Candidate == [id : Markets, yes_price : YesPrices]

\* The file: absent, or holding "empty" (nothing), "partial" (a document cut short)
\* or "complete" (a whole document); doc is what can be read of it
NoFile == [exists |-> FALSE, content |-> "empty", doc |-> FreshState(0)]

\* sort_keys=True writes cash_usd first: what a cut document still shows
CutDocument(d) == FreshState(d.cash_usd)
NoSummary == summary_of(0, EmptyPositions, <<>>, <<>>, <<>>)
NoPayload == [scanned_count |-> 0, skipped_count |-> 0, alerts_count |-> 0]

\* no call of estimate_yes_probability is on record
NoForecast == [branch |-> "none"]

\* the memory of a process that has just started
ScanReset ==
    /\ candidates = <<>> /\ i = 1 /\ alerts = <<>> /\ evaluations = <<>>
    /\ skipped = 0 /\ payload = NoPayload /\ estimate = <<>> /\ repeat = FALSE
    /\ forecast = NoForecast

LedgerReset ==
    /\ state = FreshState(0) /\ cash = 0 /\ positions = EmptyPositions
    /\ trades = <<>> /\ opened = <<>> /\ closed = <<>> /\ keys = <<>> /\ k = 1
    /\ sorted_alerts = <<>> /\ j = 1 /\ summary = NoSummary

\* the same memory, as the next state
ScanForgotten ==
    /\ candidates' = <<>> /\ i' = 1 /\ alerts' = <<>> /\ evaluations' = <<>>
    /\ skipped' = 0 /\ payload' = NoPayload /\ estimate' = <<>> /\ repeat' = FALSE
    /\ forecast' = NoForecast

LedgerForgotten ==
    /\ state' = FreshState(0) /\ cash' = 0 /\ positions' = EmptyPositions
    /\ trades' = <<>> /\ opened' = <<>> /\ closed' = <<>> /\ keys' = <<>> /\ k' = 1
    /\ sorted_alerts' = <<>> /\ j' = 1 /\ summary' = NoSummary

Init ==
    /\ pc = "idle" /\ now = 0
    /\ cfg \in Configs
    /\ file = NoFile
    /\ ScanReset /\ LedgerReset

(* bot/core/engine.py: run_scan *)

\* candidates = fetch_weather_candidates(cfg); alerts, evaluations, skipped = [], [], 0
BeginScan ==
    /\ pc = "idle" /\ now < MaxRuns
    /\ now' = now + 1
    /\ \E n \in 0..MaxCandidates : candidates' \in [1..n -> Candidate]
    /\ i' = 1 /\ alerts' = <<>> /\ evaluations' = <<>> /\ skipped' = 0
    /\ payload' = NoPayload /\ estimate' = <<>> /\ repeat' = FALSE
    /\ forecast' = NoForecast
    /\ LedgerForgotten
    /\ pc' = "scan"
    /\ UNCHANGED <<cfg, file>>

\* the loop body when nothing raises
ScanMarket ==
    /\ pc = "scan" /\ i <= Len(candidates)
    /\ \E est \in Estimates :
         LET market == candidates[i]
             model_prob == est[1]
             confidence == est[2]
             edge_bps == edge_bps_of(model_prob, market.yes_price)
             signal == evaluate_signal(market, model_prob, confidence, cfg)
             row == [market_id |-> market.id,
                     market_yes_prob |-> Round4(market.yes_price),
                     model_yes_prob |-> Round4(model_prob),
                     confidence |-> Round4(confidence),
                     edge_bps |-> edge_bps,
                     signal_action |-> IF signal = <<>> THEN "None" ELSE signal[1].action]
         IN  /\ estimate' = est
             /\ evaluations' = Append(evaluations, row)
             /\ IF signal = <<>>
                THEN skipped' = skipped + 1 /\ UNCHANGED alerts
                ELSE alerts' = Append(alerts, signal[1]) /\ UNCHANGED skipped
    /\ i' = i + 1
    /\ UNCHANGED <<pc, now, cfg, file, candidates, payload, repeat, forecast, ledgerVars>>

\* mutant of ScanEstimateRaises: the exception is not caught, the run ends
ScanEstimateRaisesUncaught ==
    /\ pc = "scan" /\ i <= Len(candidates)
    /\ estimate' = <<>>
    /\ payload' = [scanned_count |-> Len(candidates), skipped_count |-> skipped,
                   alerts_count |-> Len(alerts)]
    /\ pc' = "idle"
    /\ UNCHANGED <<now, cfg, file, candidates, i, alerts, evaluations, skipped, repeat,
                   forecast, ledgerVars>>

\* the loop body when estimate_yes_probability raises: except Exception
ScanEstimateRaises ==
    /\ pc = "scan" /\ i <= Len(candidates)
    /\ estimate' = <<>>
    /\ skipped' = skipped + 1
    /\ i' = i + 1
    /\ UNCHANGED <<pc, now, cfg, file, candidates, alerts, evaluations, payload, repeat,
                   forecast, ledgerVars>>

\* the payload, and the call of apply_paper_trading when paper trading is on
ScanDone ==
    /\ pc = "scan" /\ i > Len(candidates)
    /\ payload' = [scanned_count |-> Len(candidates), skipped_count |-> skipped,
                   alerts_count |-> Len(alerts)]
    /\ pc' = IF cfg.paper_enabled THEN "load" ELSE "idle"
    /\ UNCHANGED <<now, cfg, file, candidates, i, alerts, evaluations, skipped, estimate,
                   repeat, forecast, ledgerVars>>

\* The next iteration of main's loop, when the scan gives what the last one gave: no
\* signal and the same evaluations.  (A BeginScan whose markets and estimates repeat.)
\* The run before has saved its document, and is not itself a repeat.
RescanSame ==
    /\ pc = "idle" /\ cfg.paper_enabled /\ ~repeat
    /\ payload # NoPayload /\ alerts = <<>>
    /\ file.exists /\ file.content = "complete" /\ file.doc = state
    /\ repeat' = TRUE
    /\ now' = now + 1
    /\ LedgerForgotten
    /\ pc' = "load"
    /\ UNCHANGED <<cfg, file, candidates, i, alerts, evaluations, skipped, payload, estimate,
                   forecast>>

(* bot/core/paper.py: apply_paper_trading *)

\* state = _load_state(...); cash, positions, trades; the close pass is set up
LoadState ==
    /\ pc = "load" /\ (file.exists => file.content = "complete")
    /\ state' = _load_state(file, cfg.starting_cash_usd)
    /\ cash' = state'.cash_usd
    /\ positions' = state'.positions
    /\ trades' = state'.trades
    /\ opened' = <<>> /\ closed' = <<>>
    /\ keys' = SelectSeq(MarketOrder, LAMBDA m : m \in DOMAIN state'.positions)
    /\ k' = 1
    /\ pc' = "close"
    /\ UNCHANGED <<now, cfg, file, scanVars, sorted_alerts, j, summary>>

\* json.load raises on an empty or cut document: the run, and the process, end
LoadFails ==
    /\ pc = "load" /\ file.exists /\ file.content # "complete"
    /\ pc' = "idle"
    /\ UNCHANGED <<now, cfg, file, scanVars, ledgerVars>>

\* one iteration of the close pass
ClosePosition ==
    /\ pc = "close" /\ k <= Len(keys)
    /\ LET market_id == keys[k]
           position == positions[market_id]
           yes_price == mark_yes_price(position, market_id, evaluations)
           current_value == _value_for_side(position.qty, yes_price, position.side)
           close_reason == close_reason_for(position.side, market_id, evaluations, alerts, cfg)
           close_trade == close_trade_of(position, market_id, yes_price, current_value,
                                         close_reason, now)
       IN  IF close_reason # "None"
           THEN /\ cash' = cash + current_value
                /\ trades' = Append(trades, close_trade)
                /\ closed' = Append(closed, close_trade)
                /\ positions' = RemoveKey(positions, market_id)
           ELSE /\ positions' = [positions EXCEPT ![market_id] =
                                   [@ EXCEPT !.last_yes_price = yes_price,
                                             !.last_mark_value_usd = Round2(current_value),
                                             !.last_mark_ts = now]]
                /\ UNCHANGED <<cash, trades, closed>>
    /\ k' = k + 1
    /\ UNCHANGED <<pc, now, cfg, file, scanVars, state, opened, keys, sorted_alerts, j, summary>>

\* the close pass is over: sorted_alerts = sorted(alerts, ...)
CloseDone ==
    /\ pc = "close" /\ k > Len(keys)
    /\ sorted_alerts' = SortAlerts(alerts)
    /\ j' = 1
    /\ pc' = "open"
    /\ UNCHANGED <<now, cfg, file, scanVars, state, cash, positions, trades, opened,
                   closed, keys, k, summary>>

\* the open pass ends: the signals are exhausted, or len(positions) >= max_open_positions
OpenEnd ==
    /\ pc = "open"
    /\ \/ j > Len(sorted_alerts)
       \/ Cardinality(DOMAIN positions) >= cfg.max_open_positions
    /\ pc' = "mark"
    /\ UNCHANGED <<now, cfg, file, scanVars, ledgerVars>>

\* mutant of OpenGuard: max_open_positions is not looked at
OpenGuardNoLimit == pc = "open" /\ j <= Len(sorted_alerts)

\* the loop goes on: a signal is left and len(positions) < max_open_positions
OpenGuard ==
    /\ pc = "open" /\ j <= Len(sorted_alerts)
    /\ Cardinality(DOMAIN positions) < cfg.max_open_positions

SameSideHeld(signal) ==
    /\ signal.market_id \in DOMAIN positions
    /\ positions[signal.market_id].side = _signal_side(signal.action)

\* existing and existing["side"] == side: continue
OpenSkip ==
    /\ OpenGuard
    /\ SameSideHeld(sorted_alerts[j])
    /\ j' = j + 1
    /\ UNCHANGED <<pc, now, cfg, file, scanVars, state, cash, positions, trades, opened,
                   closed, keys, k, sorted_alerts, summary>>

\* cash < position_size_usd: break
OpenStop ==
    /\ OpenGuard
    /\ ~SameSideHeld(sorted_alerts[j])
    /\ cash < cfg.position_size_usd
    /\ pc' = "mark"
    /\ UNCHANGED <<now, cfg, file, scanVars, ledgerVars>>

\* a position is opened
OpenPosition ==
    /\ OpenGuard
    /\ ~SameSideHeld(sorted_alerts[j])
    /\ cash >= cfg.position_size_usd
    /\ LET signal == sorted_alerts[j]
           market_id == signal.market_id
           yes_price == IF HasKey(evaluations, market_id)
                        THEN LastFor(evaluations, market_id).market_yes_prob
                        ELSE signal.market_yes_prob
           new_position == new_position_of(signal, yes_price, cfg.position_size_usd, now)
           open_trade == open_trade_of(signal, new_position, yes_price,
                                       cfg.position_size_usd, now)
       IN  /\ cash' = cash - cfg.position_size_usd
           /\ positions' = PutKey(positions, market_id, new_position)
           /\ trades' = Append(trades, open_trade)
           /\ opened' = Append(opened, open_trade)
    /\ j' = j + 1
    /\ UNCHANGED <<pc, now, cfg, file, scanVars, state, closed, keys, k, sorted_alerts,
                   summary>>

\* portfolio marks, the summary, and the document to save
MarkAndSummarise ==
    /\ pc = "mark"
    /\ summary' = summary_of(cash, positions, evaluations, opened, closed)
    /\ state' = [cash_usd |-> cash, positions |-> positions,
                 trades |-> kept_trades(trades), updated_at |-> now,
                 last_summary |-> summary']
    /\ pc' = "save"
    /\ UNCHANGED <<now, cfg, file, scanVars, cash, positions, trades, opened, closed,
                   keys, k, sorted_alerts, j>>

(* _save_state *)

\* path.open("w"): the file is created or cut to nothing
SaveOpen ==
    /\ pc = "save"
    /\ file' = [exists |-> TRUE, content |-> "empty", doc |-> FreshState(0)]
    /\ pc' = "dump"
    /\ UNCHANGED <<now, cfg, scanVars, ledgerVars>>

\* json.dump: a full buffer reaches the file before the document is whole
SaveFlush ==
    /\ pc = "dump" /\ file.content = "empty"
    /\ file' = [exists |-> TRUE, content |-> "partial", doc |-> CutDocument(state)]
    /\ UNCHANGED <<pc, now, cfg, scanVars, ledgerVars>>

\* the with block ends: the rest is written, apply_paper_trading returns
SaveClose ==
    /\ pc = "dump"
    /\ file' = [exists |-> TRUE, content |-> "complete", doc |-> state]
    /\ pc' = "idle"
    /\ UNCHANGED <<now, cfg, scanVars, ledgerVars>>

\* the process is stopped and started again: its memory is lost, the file stays
Crash ==
    /\ pc # "idle"
    /\ pc' = "idle"
    /\ ScanForgotten /\ LedgerForgotten
    /\ UNCHANGED <<now, cfg, file>>

Next ==
    \/ BeginScan \/ ScanMarket \/ ScanEstimateRaises \/ ScanDone \/ RescanSame
    \/ LoadState \/ LoadFails
    \/ ClosePosition \/ CloseDone
    \/ OpenEnd \/ OpenSkip \/ OpenStop \/ OpenPosition
    \/ MarkAndSummarise
    \/ SaveOpen \/ SaveFlush \/ SaveClose
    \/ Crash

Spec == Init /\ [][Next]_vars

---------------------------------------------------------------------------
(* evaluate_signal on its own: one call per step, over finer inputs *)

FineYesPrices == {0, 39996, 40000, 60000, 100000}
FineProbs == {30000, 37000, 43000, 50004, 70000}
FineConfidences == {40000, 55000, 80000}

SignalConfigs ==
    { [min_edge_bps |-> e, min_confidence |-> 55000, paper_enabled |-> FALSE,
       starting_cash_usd |-> 2000000, position_size_usd |-> 1000000,
       max_open_positions |-> 1, close_edge_bps |-> 3000] : e \in {300, 1000} }

InitSignal ==
    /\ pc = "signal" /\ now = 0
    /\ cfg \in SignalConfigs
    /\ file = NoFile
    /\ ScanReset /\ LedgerReset

EvaluateOne ==
    /\ pc = "signal"
    /\ \E market \in [id : Markets, yes_price : FineYesPrices],
          model_prob \in FineProbs, confidence \in FineConfidences :
         /\ candidates' = <<market>>
         /\ estimate' = <<model_prob, confidence>>
         /\ alerts' = evaluate_signal(market, model_prob, confidence, cfg)
    /\ UNCHANGED <<pc, now, cfg, file, i, evaluations, skipped, payload, repeat, forecast,
                   ledgerVars>>

NextSignal == EvaluateOne

SpecSignal == InitSignal /\ [][NextSignal]_vars

---------------------------------------------------------------------------
(* The ledger of a bot that has been running for long: the history is at its cap *)

\* entry n of a history of len trades: market m2 opened and closed, run after run, and
\* last the OPEN of the position held in m1
OldTrade(n, len) ==
    IF n = len
    THEN [ts |-> 0, type |-> "OPEN", market_id |-> "m1", side |-> "YES", qty |-> 250,
          yes_price |-> 4000, cost_usd |-> 1000000, signal_edge_bps |-> 3000,
          signal_confidence |-> 8000]
    ELSE IF (len - n) % 2 = 0
    THEN [ts |-> n - len, type |-> "OPEN", market_id |-> "m2", side |-> "YES", qty |-> 250,
          yes_price |-> 4000, cost_usd |-> 1000000, signal_edge_bps |-> 3000,
          signal_confidence |-> 8000]
    ELSE [ts |-> n - len, type |-> "CLOSE", market_id |-> "m2", side |-> "YES", qty |-> 250,
          yes_price |-> 4000, proceeds_usd |-> 1000000, cost_usd |-> 1000000,
          realized_pnl_usd |-> 0, reason |-> "edge_decay"]

OldState(len, c) ==
    LET held == [side |-> "YES", qty |-> 250, entry_yes_price |-> 4000,
                 entry_unit_price |-> 4000, cost_usd |-> 1000000, entry_ts |-> 0,
                 last_yes_price |-> 4000, last_mark_value_usd |-> 1000000,
                 last_mark_ts |-> 0]
        ps == [m \in {"m1"} |-> held]
        old == [n \in 1..len |-> OldTrade(n, len)]
        c0 == c.starting_cash_usd - c.position_size_usd
    IN  [cash_usd |-> c0, positions |-> ps, trades |-> old, updated_at |-> 0,
         last_summary |-> summary_of(c0, ps, <<>>, <<old[len]>>, <<>>)]

\* one entry short of the cap; or a document cut short by a stop during a save
InitCapped ==
    /\ pc = "idle" /\ now = MaxRuns - 1
    /\ cfg \in {c \in Configs : c.paper_enabled /\ c.max_open_positions > 1}
    /\ \/ file = [exists |-> TRUE, content |-> "complete",
                  doc |-> OldState(TradeCap - 1, cfg)]
       \/ file = [exists |-> TRUE, content |-> "partial",
                  doc |-> CutDocument(OldState(TradeCap - 1, cfg))]
    /\ ScanReset /\ LedgerReset

SpecCapped == InitCapped /\ [][Next]_vars

---------------------------------------------------------------------------
(* bot/adapters/weather.py: estimate_yes_probability on its own *)
(* Probabilities are in 1/EstScale here.  A window is the bag of its samples: how many *)
(* times each value occurs; the order of the samples plays no part in the estimate.    *)

EstScale == PriceScale \div 10

\* 1.0 / (1.0 + math.exp(-margin / 2.0)) for margin = 0, 1, ..., in 1/EstScale
LogisticTable == <<500, 622, 731, 818, 881, 924, 953, 971, 982, 989, 993, 996, 998, 998,
                   999, 999>>

margin_prob_of(margin) ==
    LET up == IF Abs(margin) >= Len(LogisticTable) THEN EstScale
              ELSE LogisticTable[Abs(margin) + 1]
    IN  IF margin >= 0 THEN up ELSE EstScale - up

Clamp(x, lo, hi) == IF x < lo THEN lo ELSE IF x > hi THEN hi ELSE x

SetMax(S) == CHOOSE x \in S : \A y \in S : y <= x
SetMin(S) == CHOOSE x \in S : \A y \in S : x <= y

RECURSIVE SumBag(_, _, _)
\* the sum of f[v] over the samples of the window w with values in S
SumBag(w, S, f) ==
    IF S = {} THEN 0
    ELSE LET v == CHOOSE v \in S : TRUE
         IN  w[v] * f[v] + SumBag(w, S \ {v}, f)

WindowLen(w) == SumBag(w, DOMAIN w, [v \in DOMAIN w |-> 1])
WindowValues(w) == {v \in DOMAIN w : w[v] > 0}

\* mutant of _calc_confidence: the result is not clamped
_calc_confidence_unclamped(prob, sample_count, boost) ==
    LET dispersion == Abs(prob - EstScale \div 2) * 2
        coverage == IF sample_count >= 24 THEN EstScale
                    ELSE RoundHalfEven(sample_count * EstScale, 24)
    IN  RoundHalfEven((35 * EstScale + 45 * dispersion + 20 * coverage) * boost, 100 * 100)

\* confidence = (0.35 + 0.45 * dispersion + 0.2 * coverage) * boost, clamped;
\* boost in hundredths
_calc_confidence(prob, sample_count, boost) ==
    LET dispersion == Abs(prob - EstScale \div 2) * 2
        coverage == IF sample_count >= 24 THEN EstScale
                    ELSE RoundHalfEven(sample_count * EstScale, 24)
        confidence == RoundHalfEven((35 * EstScale + 45 * dispersion + 20 * coverage) * boost,
                                    100 * 100)
    IN  Clamp(confidence, EstScale \div 20, EstScale - EstScale \div 50)

\* rule = <<op, threshold>>; temperatures in whole degrees
_temperature_probability(temp_values, rule) ==
    IF WindowLen(temp_values) = 0 THEN EstScale \div 2
    ELSE LET op == rule[1]
             threshold == rule[2]
             extreme == IF op = ">=" THEN SetMax(WindowValues(temp_values))
                        ELSE SetMin(WindowValues(temp_values))
             satisfied == SumBag(temp_values, DOMAIN temp_values,
                                 [v \in DOMAIN temp_values |->
                                      IF op = ">="
                                      THEN (IF v >= threshold THEN 1 ELSE 0)
                                      ELSE (IF v <= threshold THEN 1 ELSE 0)])
             margin == IF op = ">=" THEN extreme - threshold ELSE threshold - extreme
             frequency_prob == RoundHalfEven(satisfied * EstScale, WindowLen(temp_values))
         IN  Clamp(RoundHalfEven(6 * margin_prob_of(margin) + 4 * frequency_prob, 10),
                   0, EstScale)

\* max(0.0, min(v / 100.0, 1.0)) of a percentage
HourlyOf(v) == Clamp(v * (EstScale \div 100), 0, EstScale)

RECURSIVE TimesPower(_, _)
\* 1.0 multiplied n times by x: any_prob *= (1.0 - p), once per sample of one value
TimesPower(x, n) ==
    IF n = 0 THEN EstScale ELSE RoundHalfEven(x * TimesPower(x, n - 1), EstScale)

RECURSIVE NoneProb(_, _)
\* the product of (1.0 - p) over the samples with values in S
NoneProb(w, S) ==
    IF S = {} THEN EstScale
    ELSE LET v == CHOOSE v \in S : TRUE
         IN  RoundHalfEven(TimesPower(EstScale - HourlyOf(v), w[v]) * NoneProb(w, S \ {v}),
                           EstScale)

_precip_probability(precip_probs) ==
    IF WindowLen(precip_probs) = 0 THEN EstScale \div 2
    ELSE LET any_prob == EstScale - NoneProb(precip_probs, DOMAIN precip_probs)
             max_prob == SetMax({HourlyOf(v) : v \in WindowValues(precip_probs)})
             avg_prob == RoundHalfEven(SumBag(precip_probs, DOMAIN precip_probs,
                                              [v \in DOMAIN precip_probs |-> HourlyOf(v)]),
                                       WindowLen(precip_probs))
         IN  Clamp(RoundHalfEven(55 * max_prob + 35 * any_prob + 10 * avg_prob, 100),
                   0, EstScale)

\* model_prob *= max(0.15, min(1.0, freezing_share * 1.3))
snow_scaled(model_prob, temp_window) ==
    IF WindowLen(temp_window) = 0 THEN model_prob
    ELSE LET frozen == SumBag(temp_window, DOMAIN temp_window,
                              [t \in DOMAIN temp_window |-> IF t <= 0 THEN 1 ELSE 0])
             freezing_share == RoundHalfEven(frozen * EstScale, WindowLen(temp_window))
             factor == Clamp(RoundHalfEven(freezing_share * 13, 10),
                             (15 * EstScale) \div 100, EstScale)
         IN  RoundHalfEven(model_prob * factor, EstScale)

\* q: what the question and the two requests gave.  The result is
\* [branch, model_prob, confidence]
estimate_yes_probability(q) ==
    IF ~q.place
    THEN [branch |-> "no_place", model_prob |-> EstScale \div 2,
          confidence |-> (15 * EstScale) \div 100]
    ELSE IF ~q.hourly
    THEN [branch |-> "no_hourly", model_prob |-> EstScale \div 2,
          confidence |-> EstScale \div 5]
    ELSE IF q.temp_rule # <<>> /\ ~q.precip_market /\ ~q.snow_market
    THEN LET model_prob == _temperature_probability(q.temp_window, q.temp_rule[1])
         IN  [branch |-> "temperature", model_prob |-> model_prob,
              confidence |-> _calc_confidence(model_prob, WindowLen(q.temp_window), 100)]
    ELSE IF WindowLen(q.precip_window) = 0
    THEN [branch |-> "no_precip_window", model_prob |-> EstScale \div 2,
          confidence |-> EstScale \div 5]
    ELSE LET precip == _precip_probability(q.precip_window)
             model_prob == IF q.snow_market THEN snow_scaled(precip, q.temp_window)
                           ELSE precip
             confidence_boost == IF q.snow_market THEN 75 ELSE 85
         IN  [branch |-> IF q.snow_market THEN "snow" ELSE "precipitation",
              model_prob |-> model_prob,
              confidence |-> _calc_confidence(model_prob, WindowLen(q.precip_window),
                                              confidence_boost)]

\* Inputs: hourly temperatures, precipitation percentages (one below 0, one above 100),
\* how often a value occurs in a window, and the rules a question can carry
TempValues == {-5, 0, 30}
PrecipValues == {-10, 40, 150}
SampleCounts == {0, 1, 24}
TempRules == {<<">=", 5>>, <<"<=", 0>>}

Questions ==
    [place : BOOLEAN, hourly : BOOLEAN,
     temp_rule : {<<>>} \cup {<<r>> : r \in TempRules},
     precip_market : BOOLEAN, snow_market : BOOLEAN,
     temp_window : [TempValues -> SampleCounts],
     precip_window : [PrecipValues -> SampleCounts]]

\* what the process keeps of a call: the question's reading and the estimate's branch
ForecastOf(q, est) ==
    [branch |-> est.branch, place |-> q.place, hourly |-> q.hourly,
     temp_rule |-> q.temp_rule, precip_market |-> q.precip_market,
     snow_market |-> q.snow_market, temp_window |-> q.temp_window,
     precip_window |-> q.precip_window]

InitEstimate ==
    /\ pc = "estimate" /\ now = 0
    /\ cfg \in SignalConfigs
    /\ file = NoFile
    /\ ScanReset /\ LedgerReset

\* the call of estimate_yes_probability and its return; the estimate is kept in
\* 1/RawScale
EstimateOne ==
    /\ pc = "estimate"
    /\ pc' = "estimated"
    /\ \E q \in Questions :
         LET est == estimate_yes_probability(q)
         IN  /\ forecast' = ForecastOf(q, est)
             /\ estimate' = <<est.model_prob * (RawScale \div EstScale),
                              est.confidence * (RawScale \div EstScale)>>
    /\ UNCHANGED <<now, cfg, file, candidates, i, alerts, evaluations, skipped, payload,
                   repeat, ledgerVars>>

NextEstimate == EstimateOne

SpecEstimate == InitEstimate /\ [][NextEstimate]_vars

---------------------------------------------------------------------------
(* The ledger of a bot that holds two positions: a run with three units of cash has *)
(* opened YES in m1 at 0.60 and NO in m2 at 0.40, and has saved                     *)

HeldConfig ==
    [min_edge_bps |-> 1000, min_confidence |-> 55000, paper_enabled |-> TRUE,
     starting_cash_usd |-> 3000000, position_size_usd |-> 1000000,
     max_open_positions |-> 2, close_edge_bps |-> 1000]

\* the signal of that run for market_id, and the position and the trade it gave
HeldSignal(market_id) ==
    evaluate_signal([id |-> market_id,
                     yes_price |-> IF market_id = "m1" THEN 60000 ELSE 40000],
                    IF market_id = "m1" THEN 70000 ELSE 30000, 80000, HeldConfig)[1]

HeldPosition(market_id) ==
    new_position_of(HeldSignal(market_id), HeldSignal(market_id).market_yes_prob,
                    HeldConfig.position_size_usd, 0)

HeldState ==
    LET ps == [m \in Markets |-> HeldPosition(m)]
        ts == [n \in 1..2 |->
                 open_trade_of(HeldSignal(MarketOrder[n]), HeldPosition(MarketOrder[n]),
                               HeldSignal(MarketOrder[n]).market_yes_prob,
                               HeldConfig.position_size_usd, 0)]
        c0 == HeldConfig.starting_cash_usd - 2 * HeldConfig.position_size_usd
    IN  [cash_usd |-> c0, positions |-> ps, trades |-> ts, updated_at |-> 0,
         last_summary |-> summary_of(c0, ps, <<>>, ts, <<>>)]

InitHeld ==
    /\ pc = "idle" /\ now = 0
    /\ cfg = HeldConfig
    /\ file = [exists |-> TRUE, content |-> "complete", doc |-> HeldState]
    /\ ScanReset /\ LedgerReset

SpecHeld == InitHeld /\ [][Next]_vars

---------------------------------------------------------------------------
(* Properties *)

\* the summary and the document of a finished ledger update are in memory
UpdateDone == pc \in {"save", "dump"} \/ (pc = "idle" /\ payload # NoPayload /\ cfg.paper_enabled
                                          /\ file.exists /\ file.doc = state)

\* the unit price the spec gives a side: yes_price clamped to [0.001, 0.999], or one minus it
UnitPriceOf(yes_price, side) ==
    LET lo == PriceScale \div 1000
        hi == PriceScale - lo
        clamped == IF yes_price < lo THEN lo ELSE IF yes_price > hi THEN hi ELSE yes_price
    IN  IF side = "YES" THEN clamped ELSE PriceScale - clamped

\* the mark value of the positions held, summed position by position
RECURSIVE MarkValueSum(_)
MarkValueSum(ms) ==
    IF ms = {} THEN 0
    ELSE LET m == CHOOSE m \in ms : TRUE
             yes_price == IF \E n \in 1..Len(evaluations) : evaluations[n].market_id = m
                          THEN LastFor(evaluations, m).market_yes_prob
                          ELSE positions[m].last_yes_price
         IN  positions[m].qty * UnitPriceOf(yes_price, positions[m].side)
             + MarkValueSum(ms \ {m})

\* C1: at the end of every ledger update the summary's equity_usd equals cash_usd +
\* position_value_usd to within one cent, each of the three being the unrounded cash,
\* the unrounded sum of the mark values, and their sum, rounded to the nearest cent.
C1_EquityIsCashPlusPositions ==
    UpdateDone =>
        LET total == MarkValueSum(DOMAIN positions)
        IN  /\ 2 * Abs(summary.cash_usd - cash) <= Cent
            /\ 2 * Abs(summary.position_value_usd - total) <= Cent
            /\ 2 * Abs(summary.equity_usd - (cash + total)) <= Cent
            /\ summary.cash_usd % Cent = 0
            /\ summary.position_value_usd % Cent = 0
            /\ summary.equity_usd % Cent = 0
            /\ Abs(summary.equity_usd - (summary.cash_usd + summary.position_value_usd)) <= Cent

\* C1, witness: an update ends holding a position, and the rounding shows: the rounded
\* equity is one cent away from the sum of the rounded cash and position value
C1_Witness ==
    /\ UpdateDone
    /\ summary.open_positions >= 1
    /\ Abs(summary.equity_usd - (summary.cash_usd + summary.position_value_usd)) = Cent

\* a step of the open pass that opens a position: the market and the position
OpensPosition == pc = "open" /\ Len(opened') = Len(opened) + 1
OpenedMarket == sorted_alerts[j].market_id

\* C2 as claimed: every position opened costs exactly position_size_usd: cash goes down
\* by it, the cost basis is it, and quantity times unit price equals it exactly.
C2_OpenCostsExactlySize ==
    [][OpensPosition =>
          LET p == positions'[OpenedMarket]
          IN  /\ cash' = cash - cfg.position_size_usd
              /\ p.cost_usd = cfg.position_size_usd
              /\ p.qty * UnitPriceOf(p.entry_yes_price, p.side) = cfg.position_size_usd]_vars

\* C2, amended: cash goes down by exactly position_size_usd, the cost basis is
\* position_size_usd, and quantity times unit price equals position_size_usd up to the
\* rounding of the division: within half a unit price per unit of quantity.
C2_OpenCostsSizeUpToRounding ==
    [][OpensPosition =>
          LET p == positions'[OpenedMarket]
              unit_price == UnitPriceOf(p.entry_yes_price, p.side)
          IN  /\ cash' = cash - cfg.position_size_usd
              /\ p.cost_usd = cfg.position_size_usd
              /\ 2 * Abs(p.qty * unit_price - cfg.position_size_usd) <= unit_price]_vars

\* C2, witness: a NO position has been opened at a clamped price, or at one that does
\* not divide the position size
C2_Witness ==
    /\ pc = "open" /\ Len(opened) >= 1
    /\ \E m \in DOMAIN positions :
         /\ positions[m].entry_ts = now
         /\ positions[m].qty * positions[m].entry_unit_price # cfg.position_size_usd

\* a step of the close pass, and the position it looks at
ClosePassStep == pc = "close" /\ k' = k + 1
\* the position the step looks at has been closed for this reason
ClosedFor(reason) ==
    /\ keys[k] \notin DOMAIN positions'
    /\ Len(closed') = Len(closed) + 1
    /\ closed'[Len(closed')].market_id = keys[k]
    /\ closed'[Len(closed')].reason = reason

\* C3 as claimed: in the close pass a position whose market has a signal of the opposite
\* side in this run is closed with reason "opposite_signal", whether or not its edge has
\* decayed, and never with reason "edge_decay".
C3_OppositeSignalCloses ==
    [][ClosePassStep =>
          LET held == positions[keys[k]]
              opposite == \E n \in 1..Len(alerts) :
                              /\ alerts[n].market_id = keys[k]
                              /\ (IF alerts[n].action = "BUY_YES" THEN "YES" ELSE "NO") # held.side
          IN  opposite => ClosedFor("opposite_signal")]_vars

SamePosition(p, q) ==
    /\ p.side = q.side /\ p.qty = q.qty /\ p.cost_usd = q.cost_usd
    /\ p.last_yes_price = q.last_yes_price
    /\ p.last_mark_value_usd = q.last_mark_value_usd

\* C4: a ledger update run again with no signal and the same evaluations closes nothing,
\* opens nothing, and leaves the cash, the positions (side, quantity, cost basis, last
\* mark price and value) and the equity as the first run saved them.
C4_RepeatChangesNothing ==
    (repeat /\ pc = "save") =>
        /\ closed = <<>> /\ opened = <<>>
        /\ state.cash_usd = file.doc.cash_usd
        /\ DOMAIN state.positions = DOMAIN file.doc.positions
        /\ \A m \in DOMAIN state.positions :
               SamePosition(state.positions[m], file.doc.positions[m])
        /\ summary.equity_usd = file.doc.last_summary.equity_usd
        /\ summary.cash_usd = file.doc.last_summary.cash_usd

\* C4, witness: the repeated update has run over a held position that has a row among
\* the unchanged evaluations
C4_Witness ==
    /\ repeat /\ pc = "save"
    /\ \E m \in DOMAIN positions : HasKey(evaluations, m)

\* the edge of the call evaluate_signal was last given
CallEdge == RoundHalfEven((estimate[1] - candidates[1].yes_price) * 10000, RawScale)

\* C5: evaluate_signal emits a Signal exactly when confidence >= min_confidence and
\* |edge_bps| >= min_edge_bps; its action is BUY_YES exactly when edge_bps >=
\* min_edge_bps, BUY_NO exactly when edge_bps <= -min_edge_bps and not BUY_YES.
C5_SignalOnlyAboveThresholds ==
    (pc = "signal" /\ candidates # <<>>) =>
        LET emitted == alerts # <<>>
            yes == CallEdge >= cfg.min_edge_bps
            no == CallEdge <= -cfg.min_edge_bps /\ ~yes
        IN  /\ emitted <=> (estimate[2] >= cfg.min_confidence
                            /\ Abs(CallEdge) >= cfg.min_edge_bps)
            /\ emitted => /\ Len(alerts) = 1
                          /\ alerts[1].action \in {"BUY_YES", "BUY_NO"}
                          /\ alerts[1].action = "BUY_YES" <=> yes
                          /\ alerts[1].action = "BUY_NO" <=> no

\* C5, witness: a call with a large edge and a confidence below min_confidence
C5_Witness ==
    /\ pc = "signal" /\ candidates # <<>>
    /\ estimate[2] < cfg.min_confidence
    /\ Abs(CallEdge) >= cfg.min_edge_bps
    /\ alerts = <<>>

\* C6 as claimed: every emitted Signal has edge_bps = round((model_yes_prob -
\* market_yes_prob) * 10000), taken over the two probabilities stored on the Signal.
C6_EdgeOfStoredProbabilities ==
    \A n \in 1..Len(alerts) :
        alerts[n].edge_bps =
            RoundHalfEven((alerts[n].model_yes_prob - alerts[n].market_yes_prob) * 10000,
                          PriceScale)

\* C7: a market whose estimation raises is counted as skipped and leaves no evaluation
\* row and no alert; the next candidate is processed all the same, each one in order,
\* and the run ends with skipped_count + alerts_count = scanned_count = the number of
\* candidates.
C7_FailureIsolated ==
    [][/\ (pc = "scan" /\ i' = i + 1 /\ estimate' = <<>>) =>
              /\ evaluations' = evaluations /\ alerts' = alerts
              /\ skipped' = skipped + 1
              /\ pc' = "scan"
       /\ (pc = "scan" /\ i' = i + 1 /\ estimate' # <<>>) =>
              /\ Len(evaluations') = Len(evaluations) + 1
              /\ evaluations'[Len(evaluations')].market_id = candidates[i].id
              /\ skipped' + Len(alerts') = skipped + Len(alerts) + 1
       /\ (pc = "scan" /\ pc' # "scan" /\ candidates' = candidates /\ candidates # <<>>) =>
              /\ i = Len(candidates) + 1
              /\ payload'.scanned_count = Len(candidates)
              /\ payload'.skipped_count + payload'.alerts_count = payload'.scanned_count
              /\ payload'.alerts_count = Len(alerts)]_vars

\* C7, witness: a run of two candidates has ended; the first raised, the second gave a
\* signal
C7_Witness ==
    /\ pc = "load"
    /\ payload.scanned_count = 2 /\ payload.skipped_count = 1 /\ payload.alerts_count = 1
    /\ Len(evaluations) = 1
    /\ evaluations[1].market_id = candidates[2].id

\* C8 as claimed: whenever the process stops, the state file holds a complete ledger
\* document, the previous one or the new one, never an empty or cut one.
C8_FileAlwaysWhole == file.exists => file.content = "complete"

\* the history on disk before this update
PersistedTrades == IF file.exists THEN file.doc.trades ELSE <<>>

\* C9: the saved history holds at most 1000 entries: the most recent 1000, in order, of
\* the history loaded, then this run's CLOSE trades, then this run's OPEN trades.
C9_HistoryIsLastThousand ==
    [][/\ (pc = "mark" /\ pc' = "save") =>
              /\ state'.trades = LastN(PersistedTrades \o closed \o opened, 1000)
              /\ Len(state'.trades) <= 1000
              /\ \A n \in 1..Len(closed) : closed[n].type = "CLOSE" /\ closed[n].ts = now
              /\ \A n \in 1..Len(opened) : opened[n].type = "OPEN" /\ opened[n].ts = now
       /\ (pc = "dump" /\ file'.content = "complete") =>
              /\ file'.doc.trades = state.trades
              /\ Len(file'.doc.trades) <= 1000]_vars

\* C9, witness: an update that closed and opened is saved, and entries had to go
C9_Witness ==
    /\ pc = "idle" /\ file.exists /\ file.content = "complete" /\ file.doc = state
    /\ Len(trades) > 1000
    /\ Len(closed) >= 1 /\ Len(opened) >= 1

\* positions that survived the close pass
Survivors == Len(keys) - Len(closed)

\* C10: a position is opened only while fewer than max_open_positions are held and
\* cash >= position_size_usd; after the update the number held is at most the larger
\* of max_open_positions and the number that survived the close pass.
C10_OpenWithinLimits ==
    [][/\ OpensPosition =>
              /\ cash >= cfg.position_size_usd
              /\ Cardinality(DOMAIN positions) < cfg.max_open_positions
       /\ (pc' \in {"open", "mark", "save"}) =>
              Cardinality(DOMAIN positions') <=
                  IF cfg.max_open_positions > Len(keys') - Len(closed')
                  THEN cfg.max_open_positions ELSE Len(keys') - Len(closed')]_vars

\* C10, witness: the open pass has opened a position and stopped with a signal left
C10_Witness ==
    /\ pc = "mark" /\ Len(opened) >= 1 /\ j <= Len(sorted_alerts)

\* C11: every estimate returned by estimate_yes_probability has 0 <= model_prob <= 1 and
\* 0.05 <= confidence <= 0.98, on every branch: temperature, precipitation, snow, no
\* location, no hourly forecast, empty precipitation window.
C11_EstimateInRange ==
    pc = "estimated" =>
        /\ forecast.branch \in {"temperature", "precipitation", "snow", "no_place",
                                "no_hourly", "no_precip_window"}
        /\ 0 <= estimate[1] /\ estimate[1] <= 100000
        /\ 5000 <= estimate[2] /\ estimate[2] <= 98000

\* C11, witness: on the temperature path a certain estimate over a full day of samples,
\* whose confidence stands at the upper end of the range
C11_Witness ==
    /\ pc = "estimated"
    /\ forecast.branch = "temperature"
    /\ estimate[1] = 100000 /\ estimate[2] = 98000

\* the position the close pass looks at, its market's row (the one the run keeps: the
\* latest), and whether any signal of the run is for the other side
HeldNow == positions[keys[k]]
RowNow == LastFor(evaluations, keys[k])
NoOppositeSignal ==
    \A n \in 1..Len(alerts) :
        alerts[n].market_id = keys[k] =>
            (IF alerts[n].action = "BUY_YES" THEN "YES" ELSE "NO") = HeldNow.side
EdgeDecayed ==
    \/ HeldNow.side = "YES" /\ RowNow.edge_bps < cfg.close_edge_bps
    \/ HeldNow.side = "NO" /\ RowNow.edge_bps > -cfg.close_edge_bps

\* the position the step looks at stays, with only its last mark brought up to date
KeptAndMarked ==
    /\ keys[k] \in DOMAIN positions'
    /\ positions'[keys[k]] =
           [HeldNow EXCEPT !.last_yes_price = RowNow.market_yes_prob,
                           !.last_mark_value_usd =
                               Round2(HeldNow.qty * UnitPriceOf(RowNow.market_yes_prob,
                                                                HeldNow.side)),
                           !.last_mark_ts = now]
    /\ cash' = cash /\ trades' = trades /\ closed' = closed

\* C12: a position whose market has a row this run and no signal of the other side is
\* closed, for edge_decay, exactly when its edge has decayed: YES and edge_bps <
\* close_edge_bps, NO and edge_bps > -close_edge_bps.  Otherwise, the boundary included,
\* it stays open and only its last mark price, value and time are updated.
C12_EdgeDecayExact ==
    [][(ClosePassStep /\ HasKey(evaluations, keys[k]) /\ NoOppositeSignal) =>
          IF EdgeDecayed THEN ClosedFor("edge_decay") ELSE KeptAndMarked]_vars

\* C12, witness: the close pass has kept a position whose edge stands exactly at the
\* boundary
C12_Witness ==
    /\ pc = "close" /\ k > 1
    /\ keys[k - 1] \in DOMAIN positions
    /\ HasKey(evaluations, keys[k - 1])
    /\ LET p == positions[keys[k - 1]]
           edge == LastFor(evaluations, keys[k - 1]).edge_bps
       IN  /\ p.last_mark_ts = now /\ p.entry_ts < now
           /\ \/ p.side = "YES" /\ edge = cfg.close_edge_bps
              \/ p.side = "NO" /\ edge = -cfg.close_edge_bps

\* s is the signals of input in descending order of |edge_bps|, ties in input order
StableDescending(s, input) ==
    /\ Len(s) = Len(input)
    /\ \E at \in [1..Len(s) -> 1..Len(s)] :
         /\ \A a, b \in 1..Len(s) : a # b => at[a] # at[b]
         /\ \A a \in 1..Len(s) : s[a] = input[at[a]]
         /\ \A a, b \in 1..Len(s) :
              a < b => \/ Abs(s[a].edge_bps) > Abs(s[b].edge_bps)
                       \/ Abs(s[a].edge_bps) = Abs(s[b].edge_bps) /\ at[a] < at[b]

\* the signal the open pass is looking at covers a position held on its side
CoversHeld ==
    /\ sorted_alerts[j].market_id \in DOMAIN positions
    /\ positions[sorted_alerts[j].market_id].side =
           (IF sorted_alerts[j].action = "BUY_YES" THEN "YES" ELSE "NO")

\* C13: the open pass takes the signals in descending order of |edge_bps|, ties in
\* input order, one after the other; it passes over a signal without opening it only
\* when the signal covers a position held on the same side; and once it has stopped it
\* opens nothing more in the run.  So a signal opened and an eligible signal not opened
\* are always in this order: the opened one first.
C13_OpenedArePrefix ==
    [][/\ pc = "open" => StableDescending(sorted_alerts, alerts)
       /\ (pc = "open" /\ pc' = "open") =>
              /\ j' = j + 1 /\ sorted_alerts' = sorted_alerts
              /\ \/ /\ Len(opened') = Len(opened) + 1
                    /\ opened'[Len(opened')].market_id = sorted_alerts[j].market_id
                    /\ opened'[Len(opened')].signal_edge_bps = sorted_alerts[j].edge_bps
                    /\ ~CoversHeld
                 \/ opened' = opened /\ CoversHeld
       /\ (pc = "open" /\ pc' # "open") => opened' = opened \/ opened' = <<>>
       /\ (pc \in {"mark", "save", "dump"}) => opened' = opened \/ opened' = <<>>]_vars

\* C13, witness: the pass has opened one of two signals of equal |edge_bps| for two
\* markets, the one that came first in the input, and has stopped before the other
C13_Witness ==
    /\ pc = "mark" /\ Len(opened) = 1 /\ Len(alerts) = 2 /\ j = 2
    /\ Abs(alerts[1].edge_bps) = Abs(alerts[2].edge_bps)
    /\ alerts[1].market_id # alerts[2].market_id
    /\ opened[1].market_id = alerts[1].market_id
    /\ alerts[2].market_id \notin DOMAIN positions

\* a step of the close pass that closes the position it looks at
ClosesPosition == ClosePassStep /\ Len(closed') = Len(closed) + 1

\* the mark value of that position: quantity times the unit price of its side at the
\* current YES price, the row's if the market has one, else the last known
MarkValueNow ==
    LET yes_price == IF \E n \in 1..Len(evaluations) : evaluations[n].market_id = keys[k]
                     THEN RowNow.market_yes_prob ELSE HeldNow.last_yes_price
    IN  HeldNow.qty * UnitPriceOf(yes_price, HeldNow.side)

\* the close but for the PNL it records: cash is credited with the mark value, one CLOSE
\* trade is appended, the position is removed, nothing else is touched
ClosedCleanly ==
    /\ cash' = cash + MarkValueNow
    /\ Len(trades') = Len(trades) + 1
    /\ SubSeq(trades', 1, Len(trades)) = trades
    /\ trades'[Len(trades')].type = "CLOSE"
    /\ trades'[Len(trades')].market_id = keys[k]
    /\ DOMAIN positions' = DOMAIN positions \ {keys[k]}
    /\ \A m \in DOMAIN positions' : positions'[m] = positions[m]

\* C14 as claimed: a close credits cash with exactly the mark value, records realized
\* PNL = mark value - cost basis in one appended CLOSE trade and removes the position;
\* no other position and no earlier trade is changed.
C14_CloseRecordsPnl ==
    [][ClosesPosition =>
          /\ ClosedCleanly
          /\ trades'[Len(trades')].realized_pnl_usd = MarkValueNow - HeldNow.cost_usd]_vars

\* C14, amended: the same, the PNL recorded being mark value - cost basis rounded to
\* the nearest cent.
C14_CloseRecordsRoundedPnl ==
    [][ClosesPosition =>
          /\ ClosedCleanly
          /\ trades'[Len(trades')].realized_pnl_usd % Cent = 0
          /\ 2 * Abs(trades'[Len(trades')].realized_pnl_usd
                     - (MarkValueNow - HeldNow.cost_usd)) <= Cent]_vars

\* C14, witness: of two positions held one has been closed, at a mark value that is no
\* whole number of cents, and the other is still there
C14_Witness ==
    /\ pc = "close" /\ Len(closed) = 1 /\ Len(keys) = 2
    /\ closed[1].market_id \notin DOMAIN positions
    /\ \E m \in DOMAIN positions : m # closed[1].market_id
    /\ cash % Cent # 0

\* the market has no evaluation row in this run
Absent(m) == \A n \in 1..Len(evaluations) : evaluations[n].market_id # m

\* position q is position p as far as side, quantity, cost basis and last mark price go
SameHolding(p, q) ==
    /\ p.side = q.side /\ p.qty = q.qty /\ p.cost_usd = q.cost_usd
    /\ p.last_yes_price = q.last_yes_price

\* C15: a position whose market has no row in the run is marked at its last known YES
\* price and is not closed: the close pass leaves its side, quantity, cost basis and
\* last mark price as they are and credits no cash for it, and it is still so held at
\* the end of the update, in every run in which the market is absent.
C15_AbsentMarketStaysOpen ==
    [][/\ (ClosePassStep /\ Absent(keys[k])) =>
              /\ keys[k] \in DOMAIN positions'
              /\ SameHolding(positions'[keys[k]], HeldNow)
              /\ positions'[keys[k]].last_mark_ts = now
              /\ positions'[keys[k]].last_mark_value_usd =
                     Round2(HeldNow.qty * UnitPriceOf(HeldNow.last_yes_price, HeldNow.side))
              /\ cash' = cash /\ closed' = closed /\ trades' = trades
       /\ (pc = "mark" /\ pc' = "save") =>
              \A m \in DOMAIN file.doc.positions :
                  Absent(m) => /\ m \in DOMAIN state'.positions
                               /\ SameHolding(state'.positions[m], file.doc.positions[m])
                               /\ \A n \in 1..Len(closed) : closed[n].market_id # m]_vars

\* C15, witness: a position opened before the first run is still held when the second
\* run is over, its market absent from the second run's evaluations, while the other
\* market had a row
C15_Witness ==
    /\ pc = "save" /\ now = 2 /\ evaluations # <<>>
    /\ \E m \in DOMAIN positions :
         /\ Absent(m)
         /\ positions[m].entry_ts = 0
         /\ positions[m].last_mark_ts = now

\* the sum of the cost basis of the positions ps
RECURSIVE CostSum(_, _)
CostSum(ps, ms) ==
    IF ms = {} THEN 0
    ELSE LET m == CHOOSE m \in ms : TRUE
         IN  ps[m].cost_usd + CostSum(ps, ms \ {m})

\* cash plus the cost basis of what is held: in memory, in its next state, on file
BookValue == cash + CostSum(positions, DOMAIN positions)
BookValueNext == cash' + CostSum(positions', DOMAIN positions')
BookValueOf(doc) == doc.cash_usd + CostSum(doc.positions, DOMAIN doc.positions)

\* C16 as claimed: cash + the cost basis of the open positions = starting_cash_usd +
\* the unrounded realized PNL of all closes so far.  Step by step: a fresh ledger
\* starts at starting_cash_usd, a loaded one where the last update left it; a close
\* adds its realized PNL, mark value - cost basis; nothing else in the update, an
\* opening included, changes the sum; and the sum is what is saved.
C16_BookValueConserved ==
    [][/\ (pc = "load" /\ pc' = "close") =>
              BookValueNext = IF file.exists THEN BookValueOf(file.doc)
                              ELSE cfg.starting_cash_usd
       /\ (pc = "close" /\ pc' \in {"close", "open"}) =>
              BookValueNext = BookValue + (IF Len(closed') = Len(closed) + 1
                                           THEN MarkValueNow - HeldNow.cost_usd ELSE 0)
       /\ (pc = "open" /\ pc' \in {"open", "mark"}) => BookValueNext = BookValue
       /\ (pc = "mark" /\ pc' = "save") => BookValueOf(state') = BookValue]_vars

\* C17 as claimed: within one ledger update no market is closed and opened again on the
\* same side: a signal whose market held a position on the signal's side when the run
\* loaded the ledger gives no OPEN trade in that run.
C17_NoSameSideReopen ==
    [][OpensPosition =>
          ~ /\ OpenedMarket \in DOMAIN state.positions
            /\ state.positions[OpenedMarket].side =
                   (IF sorted_alerts[j].action = "BUY_YES" THEN "YES" ELSE "NO")]_vars

\* the position held in market m is gone after the step, or is another one
Disappears(m) ==
    \/ m \notin DOMAIN positions'
    \/ positions'[m].side # positions[m].side
    \/ positions'[m].entry_ts # positions[m].entry_ts

\* C18 as claimed: no position is dropped without a CLOSE trade.  Every OPEN trade of a
\* run has its position, of that market id, side and quantity, in the ledger the run
\* saves; and a position disappears only in a step that appends a CLOSE trade for its
\* market and credits its mark value to cash.
C18_NoPositionDropped ==
    [][/\ (pc = "mark" /\ pc' = "save") =>
              \A n \in 1..Len(opened) :
                  /\ opened[n].market_id \in DOMAIN state'.positions
                  /\ state'.positions[opened[n].market_id].side = opened[n].side
                  /\ state'.positions[opened[n].market_id].qty = opened[n].qty
       /\ (pc \in {"close", "open"} /\ pc' \in {"close", "open", "mark"}) =>
              \A m \in DOMAIN positions :
                  Disappears(m) =>
                      /\ pc = "close" /\ m = keys[k]
                      /\ Len(closed') = Len(closed) + 1
                      /\ closed'[Len(closed')].type = "CLOSE"
                      /\ closed'[Len(closed')].market_id = m
                      /\ trades' = Append(trades, closed'[Len(closed')])
                      /\ cash' = cash + MarkValueNow]_vars

====
